---- MODULE Spec2Model ----
(***************************************************************************)
(* Model of the mcp-memory worker: a Hono app (src/src/index.ts) and an    *)
(* MCP agent (src/unnamed/part_000) that keep a D1 table `memories`        *)
(* (src/src/utils/db.ts) and a Vectorize index (src/src/utils/vectorize.ts)*)
(* side by side.                                                           *)
(*                                                                         *)
(* Every request is an asynchronous sequence of calls to D1, Vectorize and *)
(* Workers AI.  A step of the model is the completion of one await (a call *)
(* with its effect on the store and its outcome, the request's body, the   *)
(* agent's transport) followed by the synchronous code up to the next      *)
(* await.  Every awaited call to D1, Vectorize and Workers AI may fail.    *)
(*                                                                         *)
(* Text is a sequence of one-character strings, so that String.trim() is   *)
(* computed.  Similarity scores are scaled by 100 (0.5 is 50).             *)
(***************************************************************************)
EXTENDS Integers, Sequences, FiniteSets, TLC

\* ------------------------------------------------------------------ bounds
\* Number of ids uuidv4() hands out before the model stops accepting
\* addToMCPMemory calls.
MaxIds == 2
\* Number of requests the model serves in one behaviour.
MaxRequests == 3

\* --------------------------------------------------------- program constants
\* MINIMUM_SIMILARITY_SCORE = 0.5, scaled by 100.
MINIMUM_SIMILARITY_SCORE == 50
\* topK: 10 in searchMemories.
TopK == 10

\* ------------------------------------------------------------------ inputs
\* The request slots: two requests may be in flight at the same time.
Procs == {1, 2}
\* userId path segment / props.userId: the namespace.
Namespaces == {"alice", "bob"}
\* Ids uuidv4() generates, in the order it generates them.
Ids == 1..MaxIds
\* A memoryId path parameter that uuidv4() never generated.
BogusId == 0
\* Every id a store can be asked about.
MemoryIds == Ids \cup {BogusId}
\* thingToRemember / informationToGet (z.string(): any string, "" included).
Texts == {<< >>, <<"a">>}
\* Request bodies of PUT: unparsable JSON, JSON without a string `content`,
\* or {content: <string>}; the strings cover empty, blank, padded and plain.
BadJson == [parsed |-> FALSE, hasContent |-> FALSE, content |-> << >>]
NoContent == [parsed |-> TRUE, hasContent |-> FALSE, content |-> << >>]
BodyStrings == {<< >>, <<" ">>, <<" ", "b">>, <<"c">>}
Bodies ==
    {BadJson, NoContent}
        \cup {[parsed |-> TRUE, hasContent |-> TRUE, content |-> c] : c \in BodyStrings}
\* The body sent with an id that never existed: one that passes the check.
PlainBody == [parsed |-> TRUE, hasContent |-> TRUE, content |-> <<"c">>]
NoBody == [parsed |-> FALSE, hasContent |-> FALSE, content |-> <<"-">>]
\* Scores the index may report for a stored vector that differs from the
\* query vector (cosine similarity * 100): at the threshold, and above it.
Scores == {50, 75}
\* The score of a stored vector equal to the query vector.
SelfScore == 100

NoEntry == [none |-> "entry"]
NoRow == [none |-> "row"]
NoReq == [none |-> "request"]
NoResp == [none |-> "response"]

VARIABLES
    dbInitialized,  \* index.ts:11  let dbInitialized = false
    tableExists,    \* D1: the memories table has been created
    d1,             \* D1 table memories: id -> row [userId, content] or NoRow
    vectorize,      \* Vectorize index: id -> [namespace, values, metadata] or NoEntry
    nextId,         \* the next id uuidv4() returns
    pc,             \* per request slot: the call it awaits
    req,            \* per request slot: the request and the handler's locals
    resp,           \* per request slot: the response once the handler returned
    calls,          \* per request slot: the calls its handler awaited so far
    written,        \* history: (id, namespace) pairs ever upserted to Vectorize
    known,          \* history: ids ever inserted into D1 (visible to clients)
    forgets,        \* history: the DELETE requests answered with success
    served          \* number of requests received so far

vars == <<dbInitialized, tableExists, d1, vectorize, nextId, pc, req, resp,
          calls, written, known, forgets, served>>

\* ----------------------------------------------------------- pure functions
\* String.prototype.trim over the model's alphabet (index.ts:78,81).
RECURSIVE TrimStart(_)
TrimStart(s) ==
    IF s = << >> THEN s
    ELSE IF Head(s) = " " THEN TrimStart(Tail(s)) ELSE s

RECURSIVE TrimEnd(_)
TrimEnd(s) ==
    IF s = << >> THEN s
    ELSE IF s[Len(s)] = " " THEN TrimEnd(SubSeq(s, 1, Len(s) - 1)) ELSE s

Trim(s) == TrimEnd(TrimStart(s))

\* generateEmbeddings: a deterministic function of the text; the vector is
\* represented by the text it embeds, tagged with the model.
generateEmbeddings(text) == [model |-> "bge-m3", of |-> text]

\* Mutant of InvalidBody: the content is compared with "" without trim().
InvalidBodyUntrimmed(body) ==
    \/ ~body.hasContent
    \/ body.content = << >>

\* The body check of PUT (index.ts:78): body missing, content not a string,
\* or content blank after trim.
InvalidBody(body) ==
    \/ ~body.hasContent
    \/ Trim(body.content) = << >>

\* The entry storeMemory / updateMemoryVector upsert.
VectorEntry(userId, text) ==
    [namespace |-> userId,
     values    |-> generateEmbeddings(text),
     metadata  |-> [content |-> text]]

\* The row INSERT INTO memories (id, userId, content) writes.
Row(userId, content) == [userId |-> userId, content |-> content]

\* A D1 statement can succeed only when the table exists.
D1Outcomes == IF tableExists THEN {TRUE, FALSE} ELSE {FALSE}

\* Mutant of Matches: the WHERE clause without "AND userId = ?".
MatchesAnyUser(memoryId, userId) == d1[memoryId] # NoRow

\* Rows matched by "WHERE id = ? AND userId = ?".
Matches(memoryId, userId) ==
    /\ d1[memoryId] # NoRow
    /\ d1[memoryId].userId = userId

\* ------------------------------------------------------------------ state
Init ==
    /\ dbInitialized = FALSE
    /\ tableExists = FALSE
    /\ d1 = [i \in MemoryIds |-> NoRow]
    /\ vectorize = [i \in MemoryIds |-> NoEntry]
    /\ nextId = 1
    /\ pc = [p \in Procs |-> "idle"]
    /\ req = [p \in Procs |-> NoReq]
    /\ resp = [p \in Procs |-> NoResp]
    /\ calls = [p \in Procs |-> << >>]
    /\ written = {}
    /\ known = {}
    /\ forgets = {}
    /\ served = 0

Log(p, call, ok) == calls' = [calls EXCEPT ![p] = Append(@, [call |-> call, ok |-> ok])]

Goto(p, label) == pc' = [pc EXCEPT ![p] = label]

Respond(p, r) ==
    /\ pc' = [pc EXCEPT ![p] = "done"]
    /\ resp' = [resp EXCEPT ![p] = r]

\* No response yet.
NoResponse(p) == resp' = [resp EXCEPT ![p] = NoResp]

\* A result of an MCP tool: the text the handler returns.
ToolResult(text) == [status |-> "tool", text |-> text, memories |-> << >>]

\* c.json(..., status) of the HTTP handlers.
Json(status, text) == [status |-> status, text |-> text, memories |-> << >>]

\* ------------------------------------------------ the routes up to their first await
\* app.mount("/"): the MCP routes.  The request is handed to the agent,
\* MyMCP.mount(...).fetch is awaited: the tool's handler has not started.
Mount(p, r) ==
    /\ req' = [req EXCEPT ![p] = r]
    /\ Goto(p, "MyMCP.fetch")
    /\ NoResponse(p)

\* PUT /:userId/memories/:memoryId: the parameters are read and the body,
\* c.req.json(), is awaited.
PutMemory(p, r) ==
    /\ req' = [req EXCEPT ![p] = r]
    /\ Goto(p, "req.json")
    /\ NoResponse(p)

\* DELETE /:userId/memories/:memoryId: deleteMemoryFromD1 is awaited.
DeleteMemory(p, r) ==
    /\ req' = [req EXCEPT ![p] = r]
    /\ Goto(p, "deleteMemoryFromD1")
    /\ NoResponse(p)

\* next(): the route's handler runs up to its first await.
Handler(p, r) ==
    CASE r.op \in {"addToMCPMemory", "searchMCPMemory"} -> Mount(p, r)
      [] r.op = "PUT"                                   -> PutMemory(p, r)
      [] r.op = "DELETE"                                -> DeleteMemory(p, r)

\* Requests received and not yet given an id by uuidv4().
PendingAdds ==
    Cardinality({q \in Procs : /\ pc[q] \in {"initializeDatabase", "MyMCP.fetch"}
                               /\ req[q].op = "addToMCPMemory"})

\* The requests a client can send.  memoryId is an id a client can have seen
\* (ids are uuids, shown to clients only by the listing of D1 rows) or one
\* that never existed.  `results` is searchMemories' local of that name (the
\* answer of VECTORIZE.query); `after` is history: the forgets of the
\* request's namespace answered before the request arrived.
Requests ==
    LET R(op, userId, memoryId, text, body) ==
            [op |-> op, userId |-> userId, memoryId |-> memoryId, text |-> text,
             body |-> body, results |-> << >>, after |-> {}]
    IN  UNION {
          {R("addToMCPMemory", u, BogusId, t, NoBody) : u \in Namespaces, t \in Texts},
          {R("searchMCPMemory", u, BogusId, t, NoBody) : u \in Namespaces, t \in Texts},
          {R("PUT", u, m, << >>, b) : u \in Namespaces, m \in known, b \in Bodies},
          {R("PUT", u, BogusId, << >>, b) : u \in Namespaces, b \in {PlainBody}},
          {R("DELETE", u, m, << >>, NoBody) : u \in Namespaces, m \in known \cup {BogusId}}
        }

\* A request arrives on the first free slot (one that is idle or whose
\* response has been sent) and the middleware app.use("*") runs: when the
\* flag is set next() runs the route up to its first await, otherwise
\* initializeDatabase is awaited.
Receive(p) ==
    /\ pc[p] \in {"idle", "done"}
    /\ \A q \in Procs : q < p => pc[q] \notin {"idle", "done"}
    /\ calls' = [calls EXCEPT ![p] = << >>]
    /\ served < MaxRequests
    /\ served' = served + 1
    /\ \E sent \in Requests :
      LET r == IF sent.op = "searchMCPMemory"
               THEN [sent EXCEPT !.after = {f \in forgets : f.userId = sent.userId}]
               ELSE sent
      IN
        /\ r.op = "addToMCPMemory" => nextId + PendingAdds <= MaxIds
        /\ IF dbInitialized
           THEN Handler(p, r)
           ELSE /\ req' = [req EXCEPT ![p] = r]
                /\ Goto(p, "initializeDatabase")
                /\ NoResponse(p)
    /\ UNCHANGED <<forgets, dbInitialized, tableExists, d1, vectorize, nextId, written,
                   known>>

\* initializeDatabase completes: CREATE TABLE IF NOT EXISTS ran (ok) or
\* threw.  The middleware sets the flag on success, swallows the error
\* otherwise, and calls next() in both cases.
InitializeDatabaseEnds(p, ok) ==
    /\ pc[p] = "initializeDatabase"
    /\ tableExists' = (tableExists \/ ok)
    /\ dbInitialized' = (dbInitialized \/ ok)
    /\ Handler(p, req[p])
    /\ UNCHANGED <<forgets, d1, vectorize, nextId, calls, written, known, served>>

InitializeDatabaseDone(p) == \E ok \in BOOLEAN : InitializeDatabaseEnds(p, ok)

\* ------------------------------------------------------ the tools' handlers
\* addToMCPMemory: the handler calls storeMemory; uuidv4() runs, then
\* generateEmbeddings is awaited.
AddToMCPMemory(p, r) ==
    /\ req' = [req EXCEPT ![p] = [r EXCEPT !.memoryId = nextId]]
    /\ nextId' = nextId + 1
    /\ Goto(p, "storeMemory.embed")

\* searchMCPMemory: the handler calls searchMemories; generateEmbeddings is
\* awaited.
SearchMCPMemory(p, r) ==
    /\ Goto(p, "searchMemories.embed")
    /\ UNCHANGED <<req, nextId>>

\* The agent has taken the request: the handler of the tool that is called
\* runs up to its first await.
ToolCall(p) ==
    /\ pc[p] = "MyMCP.fetch"
    /\ CASE req[p].op = "addToMCPMemory"  -> AddToMCPMemory(p, req[p])
         [] req[p].op = "searchMCPMemory" -> SearchMCPMemory(p, req[p])
    /\ UNCHANGED <<forgets, dbInitialized, tableExists, d1, vectorize, resp, calls,
                   written, known, served>>

\* ------------------------------------------------------------ PUT: the body
\* Mutant of RequestJsonDone: the content is checked trimmed and kept as sent.
RequestJsonDoneUntrimmed(p) ==
    /\ pc[p] = "req.json"
    /\ IF ~req[p].body.parsed
       THEN /\ UNCHANGED req
            /\ Respond(p, Json("400", "Failed to parse request body"))
       ELSE IF InvalidBody(req[p].body)
       THEN /\ UNCHANGED req
            /\ Respond(p, Json("400", "Invalid or missing content in request body"))
       ELSE /\ req' = [req EXCEPT ![p].text = req[p].body.content]
            /\ Goto(p, "updateMemoryInD1")
            /\ UNCHANGED resp
    /\ UNCHANGED <<forgets, dbInitialized, tableExists, d1, vectorize, nextId, calls,
                   written, known, served>>

\* c.req.json() completes: the body is parsed or the parse has thrown.  A
\* body that fails the check is answered 400; otherwise the trimmed content
\* is kept and updateMemoryInD1 is awaited.
RequestJsonDone(p) ==
    /\ pc[p] = "req.json"
    /\ IF ~req[p].body.parsed
       THEN /\ UNCHANGED req
            /\ Respond(p, Json("400", "Failed to parse request body"))
       ELSE IF InvalidBody(req[p].body)
       THEN /\ UNCHANGED req
            /\ Respond(p, Json("400", "Invalid or missing content in request body"))
       ELSE /\ req' = [req EXCEPT ![p].text = Trim(req[p].body.content)]
            /\ Goto(p, "updateMemoryInD1")
            /\ UNCHANGED resp
    /\ UNCHANGED <<forgets, dbInitialized, tableExists, d1, vectorize, nextId, calls,
                   written, known, served>>

\* ------------------------------------------------ addToMCPMemory (remember)
\* Mutant of StoreMemoryEmbedDone: the missing vector is not checked
\* ("if (!values) throw" left out), so the upsert is awaited all the same.
StoreMemoryEmbedDoneUnchecked(p) ==
    /\ pc[p] = "storeMemory.embed"
    /\ \E ok \in BOOLEAN : Log(p, "AI.run", ok)
    /\ Goto(p, "storeMemory.upsert")
    /\ UNCHANGED <<forgets, dbInitialized, tableExists, d1, vectorize, nextId, req, resp,
                   written, known, served>>

\* storeMemory's generateEmbeddings completes; on success VECTORIZE.upsert is
\* awaited, on failure the handler's catch answers.
StoreMemoryEmbedDone(p) ==
    /\ pc[p] = "storeMemory.embed"
    /\ \E ok \in BOOLEAN :
        /\ Log(p, "AI.run", ok)
        /\ IF ok
           THEN Goto(p, "storeMemory.upsert") /\ UNCHANGED resp
           ELSE Respond(p, ToolResult("Failed to remember"))
    /\ UNCHANGED <<forgets, dbInitialized, tableExists, d1, vectorize, nextId, req,
                   written, known, served>>

\* What storeMemory's VECTORIZE.upsert leaves in the index: the id's entry
\* is replaced.
StoreVector(index, memoryId, text, userId) ==
    [index EXCEPT ![memoryId] = VectorEntry(userId, text)]

\* storeMemory's upsert completes; on success storeMemoryInD1 is awaited with
\* the same memoryId.
StoreMemoryUpsertDone(p) ==
    /\ pc[p] = "storeMemory.upsert"
    /\ \E ok \in BOOLEAN :
        /\ Log(p, "VECTORIZE.upsert", ok)
        /\ IF ok
           THEN /\ vectorize' = StoreVector(vectorize, req[p].memoryId, req[p].text,
                                             req[p].userId)
                /\ written' = written \cup {<<req[p].memoryId, req[p].userId>>}
                /\ Goto(p, "storeMemoryInD1")
                /\ UNCHANGED resp
           ELSE /\ UNCHANGED <<vectorize, written>>
                /\ Respond(p, ToolResult("Failed to remember"))
    /\ UNCHANGED <<forgets, dbInitialized, tableExists, d1, nextId, req, known, served>>

\* Mutant of Insert: the memoryId argument is not passed on, so the row is
\* written under another id (the default uuidv4() of storeMemoryInD1).
InsertUnderOtherId(table, memoryId, userId, content) ==
    [table EXCEPT ![CHOOSE i \in Ids : i # memoryId] = Row(userId, content)]

\* What the INSERT leaves in the table.
Insert(table, memoryId, userId, content) ==
    [table EXCEPT ![memoryId] = Row(userId, content)]

\* Mutant of StoreMemoryInD1Done: a failed INSERT is compensated by deleting
\* the vector written before it.
StoreMemoryInD1DoneCompensating(p) ==
    /\ pc[p] = "storeMemoryInD1"
    /\ \E ok \in D1Outcomes :
        /\ Log(p, "DB.insert", ok)
        /\ IF ok
           THEN /\ d1' = [d1 EXCEPT ![req[p].memoryId] = Row(req[p].userId, req[p].text)]
                /\ known' = known \cup {req[p].memoryId}
                /\ UNCHANGED vectorize
                /\ Respond(p, ToolResult("Remembered"))
           ELSE /\ vectorize' = [vectorize EXCEPT ![req[p].memoryId] = NoEntry]
                /\ UNCHANGED <<d1, known>>
                /\ Respond(p, ToolResult("Failed to remember"))
    /\ UNCHANGED <<forgets, dbInitialized, tableExists, nextId, req, written, served>>

\* storeMemoryInD1 completes: the INSERT ran or threw (id is a primary key).
StoreMemoryInD1Done(p) ==
    /\ pc[p] = "storeMemoryInD1"
    /\ \E ok \in D1Outcomes :
        /\ Log(p, "DB.insert", ok)
        /\ IF ok
           THEN /\ d1' = Insert(d1, req[p].memoryId, req[p].userId, req[p].text)
                /\ known' = known \cup {req[p].memoryId}
                /\ Respond(p, ToolResult("Remembered"))
           ELSE /\ UNCHANGED <<d1, known>>
                /\ Respond(p, ToolResult("Failed to remember"))
    /\ UNCHANGED <<forgets, dbInitialized, tableExists, vectorize, nextId, req, written, served>>

\* ------------------------------------------------- searchMCPMemory (search)
Min(a, b) == IF a < b THEN a ELSE b

\* The bijections from 1..Cardinality(S) onto S: the orders a set can be
\* delivered in.
Orders(S) ==
    {f \in [1..Cardinality(S) -> S] : \A i, j \in 1..Cardinality(S) : f[i] = f[j] => i = j}

\* A match of VECTORIZE.query with returnMetadata "all".
Match(index, id, score) == [id |-> id, score |-> score, metadata |-> index[id].metadata]

\* The ids of the index's entries in a namespace.
NamespaceIds(index, namespace) ==
    {i \in DOMAIN index : index[i] # NoEntry /\ index[i].namespace = namespace}

\* The answers a top-K query over the entries `ids` can give: each entry
\* with a score (SelfScore when its vector is the query vector), the topK
\* best of them, in any order.
TopMatches(index, ids, queryVector, topK) ==
    LET same == {i \in ids : index[i].values = queryVector}
        scorings == {[i \in ids |-> IF i \in same THEN SelfScore ELSE other[i]] :
                        other \in [ids \ same -> Scores \cup {SelfScore}]}
        k == Min(topK, Cardinality(ids))
        best(sc) == {S \in SUBSET ids :
                        /\ Cardinality(S) = k
                        /\ \A i \in S, j \in ids \ S : sc[i] >= sc[j]}
    IN  UNION {UNION {{[n \in 1..k |-> Match(index, f[n], sc[f[n]])] : f \in Orders(S)}
                        : S \in best(sc)}
                 : sc \in scorings}

\* Mutant of AboveMinimum: the threshold itself passes the filter.
AboveMinimumInclusive(match) == match.score >= MINIMUM_SIMILARITY_SCORE

\* Mutant of SortByScore: the memories are returned in the order of the
\* matches.
SortByScoreLeftOut(memories) == memories

\* Mutant of MissingContent: the placeholder without the id.
MissingContentPlain(id) == <<"Missing memory content">>

\* Mutant of Query: the namespace option is left out of the query.
QueryAllNamespaces(index, queryVector, namespace, topK) ==
    TopMatches(index, {i \in DOMAIN index : index[i] # NoEntry}, queryVector, topK)

\* The answers VECTORIZE.query(queryVector, {namespace, topK}) can give.
Query(index, queryVector, namespace, topK) ==
    TopMatches(index, NamespaceIds(index, namespace), queryVector, topK)

\* .filter((match) => match.score > MINIMUM_SIMILARITY_SCORE)
AboveMinimum(match) == match.score > MINIMUM_SIMILARITY_SCORE

\* The placeholder of a match without metadata.content.
MissingContent(id) == <<"Missing memory content (ID: ", ToString(id), ")">>

\* .map(...): the content is the metadata's, or the placeholder.
Memory(match) ==
    [content |-> IF "content" \in DOMAIN match.metadata
                 THEN match.metadata.content
                 ELSE MissingContent(match.id),
     score   |-> match.score,
     id      |-> match.id]

RECURSIVE Map(_)
Map(matches) ==
    IF matches = << >> THEN << >>
    ELSE <<Memory(Head(matches))>> \o Map(Tail(matches))

\* memories.sort((a, b) => b.score - a.score): a stable sort, highest first.
RECURSIVE InsertByScore(_, _)
InsertByScore(sorted, m) ==
    IF sorted = << >> THEN <<m>>
    ELSE IF Head(sorted).score >= m.score
         THEN <<Head(sorted)>> \o InsertByScore(Tail(sorted), m)
         ELSE <<m>> \o sorted

RECURSIVE SortByScore(_)
SortByScore(memories) ==
    IF memories = << >> THEN << >>
    ELSE InsertByScore(SortByScore(SubSeq(memories, 1, Len(memories) - 1)),
                       memories[Len(memories)])

\* searchMemories after the query: filter, map, sort.
Memories(matches) == SortByScore(Map(SelectSeq(matches, AboveMinimum)))

\* The result of the searchMCPMemory tool for the memories found.
SearchResult(memories) ==
    IF Len(memories) > 0
    THEN [status |-> "tool", text |-> "Found memories", memories |-> memories]
    ELSE ToolResult("No relevant memories found.")

\* searchMemories' generateEmbeddings completes; on success VECTORIZE.query
\* is awaited.
SearchMemoriesEmbedDone(p) ==
    /\ pc[p] = "searchMemories.embed"
    /\ \E ok \in BOOLEAN :
        /\ Log(p, "AI.run", ok)
        /\ IF ok
           THEN Goto(p, "searchMemories.query") /\ UNCHANGED resp
           ELSE Respond(p, ToolResult("Failed to search memories"))
    /\ UNCHANGED <<forgets, dbInitialized, tableExists, d1, vectorize, nextId, req,
                   written, known, served>>

\* VECTORIZE.query completes; the matches are filtered, mapped and sorted.
SearchMemoriesQueryDone(p) ==
    /\ pc[p] = "searchMemories.query"
    /\ \E ok \in BOOLEAN :
        /\ Log(p, "VECTORIZE.query", ok)
        /\ IF ok
           THEN \E matches \in Query(vectorize, generateEmbeddings(req[p].text),
                                     req[p].userId, TopK) :
                    /\ req' = [req EXCEPT ![p].results = matches]
                    /\ Respond(p, SearchResult(Memories(matches)))
           ELSE /\ UNCHANGED req
                /\ Respond(p, ToolResult("Failed to search memories"))
    /\ UNCHANGED <<forgets, dbInitialized, tableExists, d1, vectorize, nextId,
                   written, known, served>>

\* ------------------------------------------------------------ PUT (update)
\* The message updateMemoryInD1 throws when no row changed.
NotFoundMessage == "Memory with ID not found for user or content unchanged."

\* errorMessage.includes("not found") over the messages of the model.
IncludesNotFound(message) == message = NotFoundMessage

\* What the UPDATE leaves in the table.
Update(table, memoryId, userId, newContent) ==
    IF Matches(memoryId, userId)
    THEN [table EXCEPT ![memoryId].content = newContent]
    ELSE table

\* Mutant of Changes: the number of changed rows is not looked at.
ChangesUnchecked(memoryId, userId) == 1

\* result.meta.changes of the UPDATE: the rows the WHERE clause matched.
Changes(memoryId, userId) == IF Matches(memoryId, userId) THEN 1 ELSE 0

\* The catch of the PUT handler: 404 when the message says "not found",
\* 500 otherwise.
PutError(message) ==
    IF IncludesNotFound(message) THEN Json("404", message) ELSE Json("500", message)

\* Mutant of UpdateMemoryInD1Done: the D1 failure is caught like the vector
\* failure is, and the handler goes on to updateMemoryVector.
UpdateMemoryInD1DoneBestEffort(p) ==
    /\ pc[p] = "updateMemoryInD1"
    /\ \E ok \in D1Outcomes :
        /\ Log(p, "DB.update", ok)
        /\ IF ~ok
           THEN /\ UNCHANGED d1
                /\ Goto(p, "updateMemoryVector.embed") /\ UNCHANGED resp
           ELSE /\ d1' = Update(d1, req[p].memoryId, req[p].userId, req[p].text)
                /\ IF Changes(req[p].memoryId, req[p].userId) = 0
                   THEN Respond(p, PutError(NotFoundMessage))
                   ELSE Goto(p, "updateMemoryVector.embed") /\ UNCHANGED resp
    /\ UNCHANGED <<forgets, dbInitialized, tableExists, vectorize, nextId, req, written,
                   known, served>>

\* updateMemoryInD1 completes: the UPDATE ran (and changed a row or none) or
\* threw; when a row changed updateMemoryVector's generateEmbeddings is awaited.
UpdateMemoryInD1Done(p) ==
    /\ pc[p] = "updateMemoryInD1"
    /\ \E ok \in D1Outcomes :
        /\ Log(p, "DB.update", ok)
        /\ IF ~ok
           THEN /\ UNCHANGED d1
                /\ Respond(p, PutError("D1_ERROR"))
           ELSE /\ d1' = Update(d1, req[p].memoryId, req[p].userId, req[p].text)
                /\ IF Changes(req[p].memoryId, req[p].userId) = 0
                   THEN Respond(p, PutError(NotFoundMessage))
                   ELSE Goto(p, "updateMemoryVector.embed") /\ UNCHANGED resp
    /\ UNCHANGED <<forgets, dbInitialized, tableExists, vectorize, nextId, req, written,
                   known, served>>

\* Mutant of UpdateMemoryVectorEmbedDone: no inner try, the embedding failure
\* reaches the handler's outer catch.
UpdateMemoryVectorEmbedDonePropagating(p) ==
    /\ pc[p] = "updateMemoryVector.embed"
    /\ \E ok \in BOOLEAN :
        /\ Log(p, "AI.run", ok)
        /\ IF ok
           THEN Goto(p, "updateMemoryVector.upsert") /\ UNCHANGED resp
           ELSE Respond(p, PutError("Failed to generate vector embedding"))
    /\ UNCHANGED <<forgets, dbInitialized, tableExists, d1, vectorize, nextId, req,
                   written, known, served>>

\* updateMemoryVector's generateEmbeddings completes; a failure is caught by
\* the inner try and the handler still answers success.
UpdateMemoryVectorEmbedDone(p) ==
    /\ pc[p] = "updateMemoryVector.embed"
    /\ \E ok \in BOOLEAN :
        /\ Log(p, "AI.run", ok)
        /\ IF ok
           THEN Goto(p, "updateMemoryVector.upsert") /\ UNCHANGED resp
           ELSE Respond(p, Json("200", "success"))
    /\ UNCHANGED <<forgets, dbInitialized, tableExists, d1, vectorize, nextId, req,
                   written, known, served>>

\* Mutant of UpdateVector: the values are replaced and the metadata is left
\* as it was.
UpdateVectorValuesOnly(index, memoryId, newContent, userId) ==
    [index EXCEPT ![memoryId] =
        [namespace |-> userId,
         values    |-> generateEmbeddings(newContent),
         metadata  |-> IF index[memoryId] # NoEntry
                       THEN index[memoryId].metadata
                       ELSE [content |-> newContent]]]

\* What updateMemoryVector's VECTORIZE.upsert leaves in the index: the id's
\* entry is replaced, values and metadata.
UpdateVector(index, memoryId, newContent, userId) ==
    [index EXCEPT ![memoryId] = VectorEntry(userId, newContent)]

\* updateMemoryVector's upsert completes; the handler answers success either
\* way.
UpdateMemoryVectorUpsertDone(p) ==
    /\ pc[p] = "updateMemoryVector.upsert"
    /\ \E ok \in BOOLEAN :
        /\ Log(p, "VECTORIZE.upsert", ok)
        /\ IF ok
           THEN /\ vectorize' = UpdateVector(vectorize, req[p].memoryId, req[p].text,
                                              req[p].userId)
                /\ written' = written \cup {<<req[p].memoryId, req[p].userId>>}
           ELSE UNCHANGED <<vectorize, written>>
    /\ Respond(p, Json("200", "success"))
    /\ UNCHANGED <<forgets, dbInitialized, tableExists, d1, nextId, req, known, served>>

\* --------------------------------------------------------- DELETE (forget)
\* What the DELETE leaves in the table.
Delete(table, memoryId, userId) ==
    IF Matches(memoryId, userId)
    THEN [table EXCEPT ![memoryId] = NoRow]
    ELSE table

\* Mutant of DeleteMemoryFromD1Done: the number of deleted rows is checked as
\* updateMemoryInD1 checks it, and a DELETE that matched no row throws.
DeleteMemoryFromD1DoneChecked(p) ==
    /\ pc[p] = "deleteMemoryFromD1"
    /\ \E ok \in D1Outcomes :
        /\ Log(p, "DB.delete", ok)
        /\ IF ok /\ Matches(req[p].memoryId, req[p].userId)
           THEN /\ d1' = Delete(d1, req[p].memoryId, req[p].userId)
                /\ Goto(p, "deleteVectorById")
                /\ UNCHANGED resp
           ELSE /\ UNCHANGED d1
                /\ Respond(p, Json("500", "Failed to delete memory"))
    /\ UNCHANGED <<forgets, dbInitialized, tableExists, vectorize, nextId, req, written,
                   known, served>>

\* deleteMemoryFromD1 completes: the DELETE ran or threw; after it ran
\* deleteVectorById is awaited.
DeleteMemoryFromD1Done(p) ==
    /\ pc[p] = "deleteMemoryFromD1"
    /\ \E ok \in D1Outcomes :
        /\ Log(p, "DB.delete", ok)
        /\ IF ok
           THEN /\ d1' = Delete(d1, req[p].memoryId, req[p].userId)
                /\ Goto(p, "deleteVectorById")
                /\ UNCHANGED resp
           ELSE /\ UNCHANGED d1
                /\ Respond(p, Json("500", "Failed to delete memory"))
    /\ UNCHANGED <<forgets, dbInitialized, tableExists, vectorize, nextId, req, written,
                   known, served>>

\* What VECTORIZE.deleteByIds([memoryId]) leaves in the index: the id's entry
\* is removed whatever its namespace.
DeleteByIds(index, memoryId) == [index EXCEPT ![memoryId] = NoEntry]

\* History of a DELETE answered with success: whether its vector deletion
\* succeeded.
Forgot(p, vectorDeleted) ==
    forgets' = forgets \cup
        {[memoryId      |-> req[p].memoryId,
          userId        |-> req[p].userId,
          vectorDeleted |-> vectorDeleted]}

\* Mutant of DeleteVectorByIdDone: no inner try, the failure reaches the
\* handler's outer catch.
DeleteVectorByIdDonePropagating(p) ==
    /\ pc[p] = "deleteVectorById"
    /\ \E ok \in BOOLEAN :
        /\ Log(p, "VECTORIZE.deleteByIds", ok)
        /\ IF ok
           THEN /\ vectorize' = [vectorize EXCEPT ![req[p].memoryId] = NoEntry]
                /\ Forgot(p, TRUE)
                /\ Respond(p, Json("200", "success"))
           ELSE /\ UNCHANGED <<vectorize, forgets>>
                /\ Respond(p, Json("500", "Failed to delete memory"))
    /\ UNCHANGED <<dbInitialized, tableExists, d1, nextId, req, written, known, served>>

\* deleteVectorById completes; a failure is caught by the inner try and the
\* handler still answers success.
DeleteVectorByIdDone(p) ==
    /\ pc[p] = "deleteVectorById"
    /\ \E ok \in BOOLEAN :
        /\ Log(p, "VECTORIZE.deleteByIds", ok)
        /\ IF ok
           THEN vectorize' = DeleteByIds(vectorize, req[p].memoryId)
           ELSE UNCHANGED vectorize
        /\ Forgot(p, ok)
    /\ Respond(p, Json("200", "success"))
    /\ UNCHANGED <<dbInitialized, tableExists, d1, nextId, req, written, known, served>>

Next ==
    \E p \in Procs :
        \/ Receive(p)
        \/ InitializeDatabaseDone(p)
        \/ ToolCall(p)
        \/ RequestJsonDone(p)
        \/ StoreMemoryEmbedDone(p)
        \/ StoreMemoryUpsertDone(p)
        \/ StoreMemoryInD1Done(p)
        \/ SearchMemoriesEmbedDone(p)
        \/ SearchMemoriesQueryDone(p)
        \/ UpdateMemoryInD1Done(p)
        \/ UpdateMemoryVectorEmbedDone(p)
        \/ UpdateMemoryVectorUpsertDone(p)
        \/ DeleteMemoryFromD1Done(p)
        \/ DeleteVectorByIdDone(p)

Spec == Init /\ [][Next]_vars

\* ------------------------------------------- searchMemories over any index
\* The Vectorize index is a service of its own: searchMemories has to cope
\* with whatever VECTORIZE.query answers, entries without metadata.content
\* included (vectorize.ts:83-87).  SpecSearch runs one search against every
\* index content over MemoryIds.
\* The metadata of an entry that was not written by storeMemory or
\* updateMemoryVector: no `content`.
NoPayload == [source |-> "import"]

\* The entries an index can hold.
Entries ==
    {[namespace |-> n,
      values    |-> generateEmbeddings(t),
      metadata  |-> IF own THEN [content |-> t] ELSE NoPayload] :
        n \in Namespaces, t \in Texts, own \in BOOLEAN}

\* The initialized worker facing an index of any content, with one request
\* left to serve.
SearchInit ==
    /\ dbInitialized = TRUE
    /\ tableExists = TRUE
    /\ d1 = [i \in MemoryIds |-> NoRow]
    /\ vectorize \in [MemoryIds -> Entries \cup {NoEntry}]
    /\ nextId = 1
    /\ pc = [p \in Procs |-> "idle"]
    /\ req = [p \in Procs |-> NoReq]
    /\ resp = [p \in Procs |-> NoResp]
    /\ calls = [p \in Procs |-> << >>]
    /\ written = {<<i, vectorize[i].namespace>> : i \in {j \in MemoryIds : vectorize[j] # NoEntry}}
    /\ known = {}
    /\ forgets = {}
    /\ served = MaxRequests - 1

\* A searchMCPMemory call arrives.
SearchReceive(p) == Receive(p) /\ req'[p].op = "searchMCPMemory"

SearchNext ==
    \E p \in Procs :
        \/ SearchReceive(p)
        \/ ToolCall(p)
        \/ SearchMemoriesEmbedDone(p)
        \/ SearchMemoriesQueryDone(p)

SpecSearch == SearchInit /\ [][SearchNext]_vars

\* ------------------------------------------------- after a first remember
\* SpecRemembered starts where the worker is initialized and one memory has
\* been remembered, with MaxRequests requests still to come: room for an
\* update and a forget of the memory and a search after them.
RememberedInit ==
    \E u \in Namespaces, t \in Texts :
        /\ dbInitialized = TRUE
        /\ tableExists = TRUE
        /\ d1 = [i \in MemoryIds |-> IF i = 1 THEN Row(u, t) ELSE NoRow]
        /\ vectorize = [i \in MemoryIds |-> IF i = 1 THEN VectorEntry(u, t) ELSE NoEntry]
        /\ nextId = 2
        /\ pc = [p \in Procs |-> "idle"]
        /\ req = [p \in Procs |-> NoReq]
        /\ resp = [p \in Procs |-> NoResp]
        /\ calls = [p \in Procs |-> << >>]
        /\ written = {<<1, u>>}
        /\ known = {1}
        /\ forgets = {}
        /\ served = 0

\* The flag is set, so the middleware never awaits initializeDatabase.
RememberedNext ==
    \E p \in Procs :
        \/ Receive(p)
        \/ ToolCall(p)
        \/ RequestJsonDone(p)
        \/ StoreMemoryEmbedDone(p)
        \/ StoreMemoryUpsertDone(p)
        \/ StoreMemoryInD1Done(p)
        \/ SearchMemoriesEmbedDone(p)
        \/ SearchMemoriesQueryDone(p)
        \/ UpdateMemoryInD1Done(p)
        \/ UpdateMemoryVectorEmbedDone(p)
        \/ UpdateMemoryVectorUpsertDone(p)
        \/ DeleteMemoryFromD1Done(p)
        \/ DeleteVectorByIdDone(p)

SpecRemembered == RememberedInit /\ [][RememberedNext]_vars

\* --------------------------------------- one request at a time, no call failing
\* SpecSerial is Spec restricted to the behaviours in which every awaited
\* call succeeds and a request arrives only when no other is in flight.
\* After the step no call in the log of slot p has failed.  (The log holds
\* the calls of the handlers; the outcome of initializeDatabase is the
\* argument of InitializeDatabaseEnds.)
NoLoggedFailure(p) == \A n \in 1..Len(calls'[p]) : calls'[p][n].ok

\* After the step at most one request is in flight: as a request takes the
\* first free slot, the last slot is never taken.
OneAtATime == \A q \in Procs : (\A r \in Procs : r <= q) => pc'[q] = "idle"

\* The step of slot p is one of the serial behaviours.
Serial(p) == NoLoggedFailure(p) /\ OneAtATime

SerialNext ==
    \E p \in Procs :
        \/ Receive(p) /\ Serial(p)
        \/ InitializeDatabaseEnds(p, TRUE) /\ Serial(p)
        \/ ToolCall(p) /\ Serial(p)
        \/ RequestJsonDone(p) /\ Serial(p)
        \/ StoreMemoryEmbedDone(p) /\ Serial(p)
        \/ StoreMemoryUpsertDone(p) /\ Serial(p)
        \/ StoreMemoryInD1Done(p) /\ Serial(p)
        \/ SearchMemoriesEmbedDone(p) /\ Serial(p)
        \/ SearchMemoriesQueryDone(p) /\ Serial(p)
        \/ UpdateMemoryInD1Done(p) /\ Serial(p)
        \/ UpdateMemoryVectorEmbedDone(p) /\ Serial(p)
        \/ UpdateMemoryVectorUpsertDone(p) /\ Serial(p)
        \/ DeleteMemoryFromD1Done(p) /\ Serial(p)
        \/ DeleteVectorByIdDone(p) /\ Serial(p)

SpecSerial == Init /\ [][SerialNext]_vars
\* ====================================================================
\* Properties
\* ====================================================================
Last(s) == s[Len(s)]

\* The call log of a handler whose calls all succeeded but the last.
Call(call, ok) == [call |-> call, ok |-> ok]

\* Slot p has answered a request of the given operation.
Answered(p, op) == pc[p] = "done" /\ req[p].op = op

\* In this step slot p's handler saw the given call complete.
Completes(p, call, ok) == calls'[p] = Append(calls[p], Call(call, ok))

\* C1: a search under userId returns no memory whose id was ever written to
\* the index under another namespace.
C1_SearchStaysInNamespace ==
    \A p \in Procs :
        Answered(p, "searchMCPMemory") =>
            \A k \in 1..Len(resp[p].memories) :
                \A w \in written :
                    w[1] = resp[p].memories[k].id => w[2] = req[p].userId

\* C1 witness: a search has returned a memory while the other namespace
\* holds an entry with the same content.
C1_Witness ==
    \E p \in Procs :
        /\ Answered(p, "searchMCPMemory")
        /\ Len(resp[p].memories) > 0
        /\ \E i, j \in Ids :
            /\ vectorize[i] # NoEntry /\ vectorize[j] # NoEntry
            /\ vectorize[i].namespace = req[p].userId
            /\ vectorize[j].namespace # req[p].userId
            /\ vectorize[i].metadata = vectorize[j].metadata

\* C2: the step in which remember succeeds leaves the vector entry
\* (id, userId, content) and the row (id, userId, content) under the one id
\* uuidv4() gave, the handler having awaited the upsert before the INSERT;
\* and no row appears under an id whose vector entry is not already there.
C2_VectorThenRecordSameId ==
    [][/\ \A p \in Procs :
            (pc[p] = "storeMemoryInD1" /\ pc'[p] = "done"
                /\ resp'[p] = ToolResult("Remembered")) =>
                /\ calls'[p] = <<Call("AI.run", TRUE), Call("VECTORIZE.upsert", TRUE),
                                 Call("DB.insert", TRUE)>>
                /\ vectorize'[req[p].memoryId] = VectorEntry(req[p].userId, req[p].text)
                /\ d1'[req[p].memoryId] = Row(req[p].userId, req[p].text)
                /\ d1[req[p].memoryId] = NoRow
       /\ \A i \in MemoryIds :
            (d1[i] = NoRow /\ d1'[i] # NoRow) =>
                /\ vectorize[i] # NoEntry
                /\ vectorize[i].namespace = d1'[i].userId
                /\ vectorize[i].metadata.content = d1'[i].content
      ]_vars

\* C2 witness: a remember has succeeded and both halves are stored under its
\* id.
C2_Witness ==
    \E p \in Procs :
        /\ Answered(p, "addToMCPMemory")
        /\ resp[p] = ToolResult("Remembered")
        /\ vectorize[req[p].memoryId] = VectorEntry(req[p].userId, req[p].text)
        /\ d1[req[p].memoryId] = Row(req[p].userId, req[p].text)

\* C3: a remember whose embedding failed has awaited no other call, answers
\* a failure, and neither store holds anything under its id.
C3_EmbeddingFailureWritesNothing ==
    \A p \in Procs :
        (req[p] # NoReq /\ req[p].op = "addToMCPMemory"
            /\ Call("AI.run", FALSE) \in {calls[p][k] : k \in 1..Len(calls[p])}) =>
            /\ calls[p] = <<Call("AI.run", FALSE)>>
            /\ pc[p] = "done"
            /\ resp[p] = ToolResult("Failed to remember")
            /\ vectorize[req[p].memoryId] = NoEntry
            /\ d1[req[p].memoryId] = NoRow

\* C3 witness: a remember has failed on its embedding while the stores hold
\* an earlier memory.
C3_Witness ==
    \E p \in Procs :
        /\ Answered(p, "addToMCPMemory")
        /\ calls[p] = <<Call("AI.run", FALSE)>>
        /\ \E i \in Ids : d1[i] # NoRow /\ vectorize[i] # NoEntry

\* C4: a remember whose upsert succeeded and whose INSERT failed answers a
\* failure, has awaited no call after the INSERT (no compensating delete),
\* its vector entry is in the index and no row is under its id.
C4_RecordFailureLeavesOrphan ==
    \A p \in Procs :
        (req[p] # NoReq /\ req[p].op = "addToMCPMemory"
            /\ Call("DB.insert", FALSE) \in {calls[p][k] : k \in 1..Len(calls[p])}) =>
            /\ calls[p] = <<Call("AI.run", TRUE), Call("VECTORIZE.upsert", TRUE),
                            Call("DB.insert", FALSE)>>
            /\ pc[p] = "done"
            /\ resp[p] = ToolResult("Failed to remember")
            /\ vectorize[req[p].memoryId] = VectorEntry(req[p].userId, req[p].text)
            /\ d1[req[p].memoryId] = NoRow

\* C4 witness: a remember has failed on its INSERT although the table
\* exists, and its vector entry is orphaned.
C4_Witness ==
    \E p \in Procs :
        /\ Answered(p, "addToMCPMemory")
        /\ Last(calls[p]) = Call("DB.insert", FALSE)
        /\ tableExists
        /\ vectorize[req[p].memoryId] # NoEntry
        /\ d1[req[p].memoryId] = NoRow
\* C5: a remember with empty content awaits no call of its handler (it is
\* rejected before the embedding provider or a store is used) and neither store holds
\* anything under its id.
C5_EmptyContentRejected ==
    \A p \in Procs :
        (req[p] # NoReq /\ req[p].op = "addToMCPMemory" /\ req[p].text = << >>) =>
            /\ pc[p] \in {"initializeDatabase", "MyMCP.fetch", "done"}
            /\ calls[p] = << >>
            /\ vectorize[req[p].memoryId] = NoEntry
            /\ d1[req[p].memoryId] = NoRow

\* A text of spaces only (the empty text included).
Blank(text) == \A k \in 1..Len(text) : text[k] = " "

\* C6: a PUT whose content is empty or blank is answered 400 by the body
\* check: its handler awaits its body and no call at all.
C6_BlankUpdateRejected ==
    \A p \in Procs :
        (req[p] # NoReq /\ req[p].op = "PUT" /\ req[p].body.hasContent
            /\ Blank(req[p].body.content)) =>
            /\ pc[p] \in {"initializeDatabase", "req.json", "done"}
            /\ calls[p] = << >>
            /\ pc[p] = "done" =>
                 resp[p] = Json("400", "Invalid or missing content in request body")

\* C6 witness: a PUT with blank content on an existing record of the caller
\* has been answered 400 and the record still has its content.
C6_Witness ==
    \E p \in Procs :
        /\ Answered(p, "PUT")
        /\ req[p].body.hasContent
        /\ req[p].body.content = <<" ">>
        /\ resp[p].status = "400"
        /\ Matches(req[p].memoryId, req[p].userId)
        /\ d1[req[p].memoryId].content = <<"a">>
        /\ vectorize[req[p].memoryId] = VectorEntry(req[p].userId, <<"a">>)

\* C7: when updateMemoryInD1 completes for an (id, userId) that matches no
\* row, the handler answers at once, never with success: 404 with the
\* not-found message when the UPDATE ran, 500 only when D1 threw; the table
\* and the index are left as they were (no embedding, no upsert follows).
C7_UpdateOfMissingIsNotFound ==
    [][\A p \in Procs :
          (pc[p] = "updateMemoryInD1" /\ pc'[p] # pc[p]
              /\ ~Matches(req[p].memoryId, req[p].userId)) =>
              /\ pc'[p] = "done"
              /\ resp'[p].status \in {"404", "500"}
              /\ Completes(p, "DB.update", TRUE) =>
                    resp'[p] = Json("404", NotFoundMessage)
              /\ resp'[p].status = "500" => Completes(p, "DB.update", FALSE)
              /\ d1' = d1
              /\ vectorize' = vectorize
      ]_vars

\* C7 witness: a PUT on an id whose row belongs to the other namespace has
\* been answered 404, and its handler awaited the UPDATE alone.
C7_Witness ==
    \E p \in Procs :
        /\ Answered(p, "PUT")
        /\ resp[p].status = "404"
        /\ calls[p] = <<Call("DB.update", TRUE)>>
        /\ d1[req[p].memoryId] # NoRow
        /\ d1[req[p].memoryId].userId # req[p].userId
        /\ vectorize[req[p].memoryId] # NoEntry

\* C8: the UPDATE that matches a row leaves (id, userId) with the new
\* content; the upsert that follows leaves the id's vector entry with
\* userId, the embedding of the new content and the new content as payload,
\* and the handler answers success; and a search answers with the payload
\* the index holds for each id it returns.
C8_UpdateReplacesBothHalves ==
    [][\A p \in Procs :
          /\ (pc[p] = "updateMemoryInD1" /\ pc'[p] = "updateMemoryVector.embed") =>
                /\ Matches(req[p].memoryId, req[p].userId)
                /\ d1'[req[p].memoryId] = Row(req[p].userId, req[p].text)
          /\ (pc[p] = "updateMemoryVector.upsert"
                /\ Completes(p, "VECTORIZE.upsert", TRUE)) =>
                /\ vectorize'[req[p].memoryId] =
                       [namespace |-> req[p].userId,
                        values    |-> generateEmbeddings(req[p].text),
                        metadata  |-> [content |-> req[p].text]]
                /\ resp'[p] = Json("200", "success")
                /\ calls'[p] = <<Call("DB.update", TRUE), Call("AI.run", TRUE),
                                 Call("VECTORIZE.upsert", TRUE)>>
          /\ (pc[p] = "searchMemories.query" /\ pc'[p] = "done") =>
                \A k \in 1..Len(resp'[p].memories) :
                    LET m == resp'[p].memories[k]
                    IN  /\ vectorize[m.id] # NoEntry
                        /\ m.content = vectorize[m.id].metadata.content
      ]_vars

\* C8 witness: after an update that succeeded on both stores a search has
\* returned the updated content for the id.
C8_Witness ==
    \E p \in Procs :
        /\ Answered(p, "searchMCPMemory")
        /\ \E k \in 1..Len(resp[p].memories) :
            LET m == resp[p].memories[k]
            IN  /\ m.content \in {<<"b">>, <<"c">>}
                /\ d1[m.id] = Row(req[p].userId, m.content)
                /\ vectorize[m.id] = VectorEntry(req[p].userId, m.content)

\* C9: when updateMemoryVector fails, on its embedding or on its upsert, the
\* handler answers success and neither the table (no rollback) nor the index
\* changes.
C9_VectorFailureKeepsUpdate ==
    [][\A p \in Procs :
          (Completes(p, "AI.run", FALSE) \/ Completes(p, "VECTORIZE.upsert", FALSE))
              /\ req[p].op = "PUT" =>
              /\ pc'[p] = "done"
              /\ resp'[p] = Json("200", "success")
              /\ calls[p] \in {<<Call("DB.update", TRUE)>>,
                               <<Call("DB.update", TRUE), Call("AI.run", TRUE)>>}
              /\ d1' = d1
              /\ vectorize' = vectorize
      ]_vars

\* C9 witness: a PUT answered success although its vector step failed; the
\* row has the new content and the vector entry still has the old payload.
C9_Witness ==
    \E p \in Procs :
        /\ Answered(p, "PUT")
        /\ resp[p] = Json("200", "success")
        /\ Last(calls[p]) = Call("VECTORIZE.upsert", FALSE)
        /\ d1[req[p].memoryId] = Row(req[p].userId, req[p].text)
        /\ vectorize[req[p].memoryId] = VectorEntry(req[p].userId, <<"a">>)
        /\ req[p].text # <<"a">>

\* C10: the DELETE of forget runs first and leaves no row (id, userId), the
\* index untouched; when the vector deletion that follows fails, the handler
\* answers success, the row stays gone and the index is left as it was.
C10_ForgetSurvivesVectorFailure ==
    [][\A p \in Procs :
          /\ (pc[p] = "deleteMemoryFromD1" /\ Completes(p, "DB.delete", TRUE)) =>
                /\ d1'[req[p].memoryId] = NoRow \/ d1'[req[p].memoryId].userId # req[p].userId
                /\ \A i \in MemoryIds \ {req[p].memoryId} : d1'[i] = d1[i]
                /\ vectorize' = vectorize
                /\ pc'[p] = "deleteVectorById"
          /\ (pc'[p] = "deleteVectorById" /\ pc[p] # pc'[p]) =>
                Completes(p, "DB.delete", TRUE)
          /\ Completes(p, "VECTORIZE.deleteByIds", FALSE) =>
                /\ calls[p] = <<Call("DB.delete", TRUE)>>
                /\ pc'[p] = "done"
                /\ resp'[p] = Json("200", "success")
                /\ ~Matches(req[p].memoryId, req[p].userId)
                /\ d1' = d1
                /\ vectorize' = vectorize
      ]_vars

\* C10 witness: a forget answered success although the vector deletion
\* failed; the row is gone and the vector entry is still in the index.
C10_Witness ==
    \E p \in Procs :
        /\ Answered(p, "DELETE")
        /\ resp[p] = Json("200", "success")
        /\ calls[p] = <<Call("DB.delete", TRUE), Call("VECTORIZE.deleteByIds", FALSE)>>
        /\ req[p].memoryId \in known
        /\ d1[req[p].memoryId] = NoRow
        /\ vectorize[req[p].memoryId] # NoEntry
        /\ vectorize[req[p].memoryId].namespace = req[p].userId

\* The ids of the memories slot p's search returned.
Returned(p) == {resp[p].memories[k].id : k \in 1..Len(resp[p].memories)}

\* C11: a search that arrived after forget(id, ns) was answered with
\* success returns no memory with that id.  Stated for the forgets whose
\* vector deletion succeeded: a forget whose vector deletion failed is
\* answered with success and leaves the entry in the index (C10).
C11_ForgottenNeverReturned ==
    \A p \in Procs :
        Answered(p, "searchMCPMemory") =>
            \A f \in req[p].after :
                f.vectorDeleted => f.memoryId \notin Returned(p)

\* Slot p serves a forget of an id that has no row: one that never had a row,
\* or one whose forget under the same userId was answered with success before.
RepeatedForget(p) ==
    /\ req[p] # NoReq
    /\ req[p].op = "DELETE"
    /\ d1[req[p].memoryId] = NoRow
    /\ \/ req[p].memoryId \notin known
       \/ \E f \in forgets : f.memoryId = req[p].memoryId /\ f.userId = req[p].userId

\* C12 as stated: a forget of an id that has no row (a second forget, or an
\* id that never had one) does not fail on its DELETE statement, and its
\* steps leave the table and the index as they were.
C12_ForgetIsIdempotent ==
    [][\A p \in Procs :
          RepeatedForget(p) =>
              /\ Completes(p, "DB.delete", TRUE) =>
                    /\ pc'[p] = "deleteVectorById"
                    /\ d1' = d1 /\ vectorize' = vectorize
              /\ (\E ok \in BOOLEAN : Completes(p, "VECTORIZE.deleteByIds", ok)) =>
                    /\ resp'[p] = Json("200", "success")
                    /\ d1' = d1 /\ vectorize' = vectorize
      ]_vars

\* C12 amended: a forget of an id that has no row does not fail on its DELETE
\* statement, answers success and leaves the table as it was; it leaves the
\* index as it was when the index holds no entry for the id, and otherwise
\* removes that entry and no other.
C12_RepeatedForgetRemovesOnlyLeftover ==
    [][\A p \in Procs :
          RepeatedForget(p) =>
              /\ Completes(p, "DB.delete", TRUE) =>
                    /\ pc'[p] = "deleteVectorById"
                    /\ d1' = d1 /\ vectorize' = vectorize
              /\ (\E ok \in BOOLEAN : Completes(p, "VECTORIZE.deleteByIds", ok)) =>
                    /\ resp'[p] = Json("200", "success")
                    /\ d1' = d1
                    /\ \A i \in MemoryIds \ {req[p].memoryId} : vectorize'[i] = vectorize[i]
                    /\ vectorize'[req[p].memoryId] \in {NoEntry, vectorize[req[p].memoryId]}
                    /\ vectorize[req[p].memoryId] = NoEntry => vectorize' = vectorize
      ]_vars

\* C12 witness: the same forget has been answered with success twice, once
\* with its vector deletion failed and once with it succeeded; the row and
\* the entry the memory had are gone.
C12_Witness ==
    \E p \in Procs :
        /\ Answered(p, "DELETE")
        /\ resp[p] = Json("200", "success")
        /\ <<req[p].memoryId, req[p].userId>> \in written
        /\ req[p].memoryId \in known
        /\ d1[req[p].memoryId] = NoRow
        /\ vectorize[req[p].memoryId] = NoEntry
        /\ \E f, g \in forgets :
            /\ f.memoryId = req[p].memoryId /\ g.memoryId = req[p].memoryId
            /\ f.userId = req[p].userId /\ g.userId = req[p].userId
            /\ ~f.vectorDeleted /\ g.vectorDeleted

\* C13: a step of a forget or an update issued under one userId, for an id
\* whose row belongs to another userId, leaves that row and the id's vector
\* entry as they were.
C13_OtherUsersMemoryUntouched ==
    [][\A p \in Procs :
          ( /\ req[p] # NoReq
            /\ req[p].op \in {"DELETE", "PUT"}
            /\ pc[p] \notin {"idle", "done", "initializeDatabase"}
            /\ pc'[p] # pc[p]
            /\ d1[req[p].memoryId] # NoRow
            /\ d1[req[p].memoryId].userId # req[p].userId ) =>
              /\ d1'[req[p].memoryId] = d1[req[p].memoryId]
              /\ vectorize'[req[p].memoryId] = vectorize[req[p].memoryId]
      ]_vars

\* Slot p's search has been answered from the matches the index delivered.
Searched(p) ==
    /\ Answered(p, "searchMCPMemory")
    /\ calls[p] # << >>
    /\ Last(calls[p]) = Call("VECTORIZE.query", TRUE)

\* The matches the index delivered to slot p's search that pass the
\* threshold.
Surviving(p) ==
    {n \in 1..Len(req[p].results) : req[p].results[n].score > MINIMUM_SIMILARITY_SCORE}

\* C14: a search returns no memory with a score of 0.5 or less, and returns
\* every match the index delivered with a score above 0.5, once each.
C14_OnlyAboveThreshold ==
    \A p \in Procs :
        Searched(p) =>
            /\ \A k \in 1..Len(resp[p].memories) :
                    resp[p].memories[k].score > MINIMUM_SIMILARITY_SCORE
            /\ \A n \in Surviving(p) :
                    \E k \in 1..Len(resp[p].memories) :
                        /\ resp[p].memories[k].id = req[p].results[n].id
                        /\ resp[p].memories[k].score = req[p].results[n].score
            /\ Len(resp[p].memories) = Cardinality(Surviving(p))

\* C14 witness: the index delivered a match at the threshold and a match
\* above it, and the search returned one memory.
C14_Witness ==
    \E p \in Procs :
        /\ Searched(p)
        /\ \E n, m \in 1..Len(req[p].results) :
            /\ req[p].results[n].score = MINIMUM_SIMILARITY_SCORE
            /\ req[p].results[m].score > MINIMUM_SIMILARITY_SCORE
        /\ Len(resp[p].memories) = 1

\* C15: in the list a search returns every memory has a score at least that
\* of the memory after it.
C15_SortedByScoreDescending ==
    \A p \in Procs :
        Searched(p) =>
            \A k \in 1..(Len(resp[p].memories) - 1) :
                resp[p].memories[k].score >= resp[p].memories[k + 1].score

\* C15 witness: the index delivered two matches above the threshold with the
\* lower score first, and the search returned them with the higher first.
C15_Witness ==
    \E p \in Procs :
        /\ Searched(p)
        /\ Len(req[p].results) >= 2
        /\ req[p].results[1].score > MINIMUM_SIMILARITY_SCORE
        /\ req[p].results[1].score < req[p].results[2].score
        /\ resp[p].memories[1].id = req[p].results[2].id
        /\ resp[p].memories[2].id = req[p].results[1].id

\* C16: every match above the threshold is returned with the content of its
\* metadata, or, when its metadata has none, with a placeholder that
\* contains the match's id; the table is not read.
C16_ContentFromPayloadOrPlaceholder ==
    \A p \in Procs :
        Searched(p) =>
            \A n \in Surviving(p) :
                LET match == req[p].results[n] IN
                \E k \in 1..Len(resp[p].memories) :
                    LET memory == resp[p].memories[k] IN
                    /\ memory.id = match.id
                    /\ IF "content" \in DOMAIN match.metadata
                       THEN memory.content = match.metadata.content
                       ELSE /\ \E c \in 1..Len(memory.content) :
                                    memory.content[c] = ToString(match.id)
                            /\ Head(memory.content) = "Missing memory content (ID: "

\* C16 witness: a search returned a match whose metadata has no content and
\* a match whose metadata has one, with no row in the table.
C16_Witness ==
    \E p \in Procs :
        /\ Searched(p)
        /\ Len(resp[p].memories) = 2
        /\ \E n, m \in Surviving(p) :
            /\ "content" \notin DOMAIN req[p].results[n].metadata
            /\ "content" \in DOMAIN req[p].results[m].metadata
        /\ \A i \in MemoryIds : d1[i] = NoRow

\* C17: when a search's query is answered, every memory of its namespace
\* whose row holds the search's non-empty text as remember wrote it (no
\* update can write that text) is among the memories returned, with a score
\* above 0.5.
C17_SelfMatch ==
    [][\A p \in Procs :
          (Completes(p, "VECTORIZE.query", TRUE) /\ req[p].text # << >>) =>
              \A i \in Ids :
                  (i \in known /\ d1[i] = Row(req[p].userId, req[p].text)) =>
                      \E k \in 1..Len(resp'[p].memories) :
                          /\ resp'[p].memories[k].id = i
                          /\ resp'[p].memories[k].score > MINIMUM_SIMILARITY_SCORE
      ]_vars

\* Slot p has answered an update all of whose calls succeeded.
Updated(p) ==
    /\ Answered(p, "PUT")
    /\ calls[p] = <<Call("DB.update", TRUE), Call("AI.run", TRUE),
                    Call("VECTORIZE.upsert", TRUE)>>

\* Two updates of one (id, userId) with different contents have both been
\* answered, every call of theirs having succeeded.
BothUpdated(p, q) ==
    /\ p # q
    /\ Updated(p) /\ Updated(q)
    /\ req[p].memoryId = req[q].memoryId
    /\ req[p].userId = req[q].userId
    /\ Trim(req[p].body.content) # Trim(req[q].body.content)

\* C18: after two updates of one (id, userId) with different contents have
\* both succeeded in every call, the row holds the trimmed content of one of
\* them and the vector entry is the entry of one of them; nothing makes it
\* the same one (the witness is the state where it is not).
C18_EachStoreKeepsOneWriter ==
    \A p, q \in Procs :
        BothUpdated(p, q) =>
            LET id == req[p].memoryId
                contents == {Trim(req[p].body.content), Trim(req[q].body.content)}
            IN  /\ d1[id] # NoRow
                /\ d1[id].userId = req[p].userId
                /\ d1[id].content \in contents
                /\ vectorize[id] \in {VectorEntry(req[p].userId, c) : c \in contents}

\* C18 witness: both updates have succeeded in every call; the row holds the
\* content of one and the vector entry is the other's.
C18_Witness ==
    \E p, q \in Procs :
        /\ BothUpdated(p, q)
        /\ d1[req[p].memoryId] = Row(req[p].userId, Trim(req[p].body.content))
        /\ vectorize[req[p].memoryId] =
                VectorEntry(req[q].userId, Trim(req[q].body.content))

\* C19: the step in which the D1 statement of an update or a forget throws
\* ends the request with status 500, the statement having been the
\* request's only call, and leaves the index and the table as they were; a
\* request answered after such a failure has awaited no other call.
C19_RecordFailureIsFatal ==
    [][\A p \in Procs :
          /\ (Completes(p, "DB.update", FALSE) \/ Completes(p, "DB.delete", FALSE)) =>
                /\ calls[p] = << >>
                /\ pc'[p] = "done"
                /\ resp'[p].status = "500"
                /\ vectorize' = vectorize
                /\ d1' = d1
          /\ ( /\ calls[p] # << >>
               /\ calls[p][1] \in {Call("DB.update", FALSE), Call("DB.delete", FALSE)} ) =>
                calls'[p] \in {calls[p], << >>}
      ]_vars

\* C19 witness: a forget of a memory was answered 500 after its DELETE
\* threw; the row and the vector entry are both still there.
C19_Witness ==
    \E p \in Procs :
        /\ Answered(p, "DELETE")
        /\ calls[p] = <<Call("DB.delete", FALSE)>>
        /\ resp[p].status = "500"
        /\ tableExists
        /\ Matches(req[p].memoryId, req[p].userId)
        /\ vectorize[req[p].memoryId] = VectorEntry(req[p].userId, d1[req[p].memoryId].content)

\* C20: a handler awaits a D1 statement only when the initialization has
\* succeeded (the flag is set and the table exists); the flag is set only
\* when the table exists, and once set it stays set.
C20_TableExistsBeforeFirstUse ==
    [][ /\ \A p \in Procs :
             pc'[p] \in {"storeMemoryInD1", "updateMemoryInD1", "deleteMemoryFromD1"} =>
                 dbInitialized' /\ tableExists'
        /\ dbInitialized' => tableExists'
        /\ dbInitialized => dbInitialized'
      ]_vars

\* C21: an id with a row and a vector entry has the row's userId as the
\* entry's namespace, and an update that has its vector upsert ahead is an
\* update under the userId of the id's row, if the row is still there.
C21_SameNamespaceInBothStores ==
    /\ \A i \in DOMAIN d1 :
          (d1[i] # NoRow /\ vectorize[i] # NoEntry) =>
              d1[i].userId = vectorize[i].namespace
    /\ \A p \in Procs :
          pc[p] \in {"updateMemoryVector.embed", "updateMemoryVector.upsert"} =>
              \/ d1[req[p].memoryId] = NoRow
              \/ d1[req[p].memoryId].userId = req[p].userId

\* C21 witness: an update under another userId was answered 404, and the id
\* still has its row and its entry under the owner's userId.
C21_Witness ==
    \E p \in Procs :
        /\ Answered(p, "PUT")
        /\ resp[p].status = "404"
        /\ d1[req[p].memoryId] # NoRow
        /\ d1[req[p].memoryId].userId # req[p].userId
        /\ vectorize[req[p].memoryId] # NoEntry
        /\ vectorize[req[p].memoryId].namespace = d1[req[p].memoryId].userId

\* The (id, namespace, content) triples of the table and of the index.
RecordTriples ==
    {<<i, d1[i].userId, d1[i].content>> : i \in {j \in DOMAIN d1 : d1[j] # NoRow}}

VectorTriples ==
    {<<i, vectorize[i].namespace, vectorize[i].metadata.content>> :
        i \in {j \in DOMAIN vectorize : vectorize[j] # NoEntry}}

\* C22: when requests run one at a time and no call fails, the table and the
\* index hold the same (id, namespace, content) triples whenever no request
\* is in flight.
C22_NoDivergenceWhenSerial ==
    (\A p \in Procs : pc[p] \in {"idle", "done"}) => RecordTriples = VectorTriples

\* C23: once a forget of a memory under its own userId has been answered
\* with its vector deletion succeeded and no request is in flight any more,
\* the index holds no entry for the id.
C23_ForgetWinsOverUpdate ==
    (\A p \in Procs : pc[p] \in {"idle", "done"}) =>
        \A f \in forgets :
            (f.vectorDeleted /\ <<f.memoryId, f.userId>> \in written) =>
                vectorize[f.memoryId] = NoEntry
====
